---- MODULE Spec2Model ----
(***************************************************************************)
(* Model of src/app.py, the flood mapping Streamlit script.                *)
(*                                                                         *)
(* The script is re-executed top to bottom on every render pass.  The      *)
(* client side (widgets, the ZIP loader, the Earth Engine queries, the     *)
(* layers put on the map) is modelled statement by statement, with pc      *)
(* naming the source line about to run.  Earth Engine images are lazy      *)
(* server-side expressions: the client builds expression records, and the  *)
(* operator Eval gives their per-pixel value, as the server computes it    *)
(* when the map tiles are fetched.                                         *)
(***************************************************************************)
EXTENDS Integers, Sequences, FiniteSets

VARIABLES
    pc,                   \* source line about to run, or "done" / "failed"
    fault,                \* the unhandled exception that ended the pass
    uploaded_zip,         \* line 34
    start_date, end_date, \* lines 42, 44
    start_date_post, end_date_post, \* lines 52, 54
    catalog,              \* remote: the days that have a scene over the roi
    pixels,               \* remote: band values of each scene at one pixel
    tmpdir,               \* the TemporaryDirectory of load_shapefile_from_zip
    shp_file,             \* line 71
    study_extent,         \* lines 130, 134
    roi,                  \* line 137
    Map,                  \* lines 90, 140
    messages,             \* st.error / st.warning shown in this pass
    queries,              \* getInfo round trips issued in this pass
    pre_rgb_layer, s2_preflood_clipped,   \* line 144
    preflood_mndwi, perm_water,           \* lines 149, 150
    post_rgb_layer, s2_postflood_clipped, \* line 153
    postflood_mndwi, flood_water,         \* lines 158, 159
    notPermWaterMask, flooded,            \* lines 162, 163
    rendered,             \* what Map.to_streamlit() put on the page
    tiles,                \* per-pixel values the server computed for the page
    shown_before          \* history: an earlier pass put a layer on the page

inputs  == <<uploaded_zip, start_date, end_date, start_date_post, end_date_post>>
remote  == <<catalog, pixels>>
loader  == <<tmpdir, shp_file>>
preVars == <<pre_rgb_layer, s2_preflood_clipped, preflood_mndwi, perm_water>>
postVars == <<post_rgb_layer, s2_postflood_clipped, postflood_mndwi, flood_water,
              notPermWaterMask, flooded>>
vars == <<pc, fault, inputs, remote, loader, study_extent, roi, Map, messages,
          queries, preVars, postVars, rendered, tiles,
                   shown_before>>

----------------------------------------------------------------------------
(* Bounds *)

\* dates are day numbers 0..MaxDate; scenes are acquired on days 0..MaxDate-1
MaxDate == 2
\* an archive holds at most MaxMembers members
MaxMembers == 2

Dates == 0..MaxDate
Days  == 0..(MaxDate - 1)

\* member names, as character sequences
NameShp == <<"a", ".", "s", "h", "p">>
NameShx == <<"a", ".", "s", "h", "x">>
NameUpper == <<"A", ".", "S", "H", "P">>
Names   == {NameShp, NameShx, NameUpper}

None == [op |-> "None"]

NameLists == UNION {[1..n -> Names] : n \in 0..MaxMembers}
Archives ==
    {[op |-> "zip", wellformed |-> FALSE, names |-> <<>>]}
    \cup {[op |-> "zip", wellformed |-> TRUE, names |-> l] : l \in NameLists}

\* coordinate reference systems a parsed shapefile can carry
CrsValues == {"none", "EPSG:3857", "EPSG:4326"}

----------------------------------------------------------------------------
(* Rational arithmetic for per-pixel values: <<numerator, denominator>>,   *)
(* denominator > 0, in lowest terms.                                       *)

Abs(x) == IF x < 0 THEN -x ELSE x

RECURSIVE GCD(_, _)
GCD(a, b) == IF b = 0 THEN a ELSE GCD(b, a % b)

Rat(n, d) ==
    LET g == GCD(Abs(n), d)
    IN  IF n = 0 THEN <<0, 1>> ELSE <<n \div g, d \div g>>

RatAdd(a, b)  == Rat(a[1] * b[2] + b[1] * a[2], a[2] * b[2])
RatDivInt(a, k) == Rat(a[1], a[2] * k)
RatGt(a, b)   == a[1] * b[2] > b[1] * a[2]
RatLt(a, b)   == a[1] * b[2] < b[1] * a[2]

\* a pixel is masked (no data) or holds a value
Masked == [ok |-> FALSE, v |-> <<0, 1>>]
Px(v)  == [ok |-> TRUE, v |-> v]

\* band values (B3 green, B11 SWIR) of one scene at the pixel, or no data there
NoSample == [ok |-> FALSE, B3 |-> 0, B11 |-> 0]
Samples ==
    { NoSample,
      [ok |-> TRUE, B3 |-> 99,  B11 |-> 101],    \* index -0.01
      [ok |-> TRUE, B3 |-> 101, B11 |-> 99],     \* index  0.01
      [ok |-> TRUE, B3 |-> 103, B11 |-> 97],     \* index  0.03
      [ok |-> TRUE, B3 |-> 99,  B11 |-> 1] }     \* index  0.98

----------------------------------------------------------------------------
(* Earth Engine, server side: what each image operation does to one pixel  *)

\* normalizedDifference(['B3', 'B11']) of one scene (line 119)
calculate_mndwi(image) ==
    IF image.ok
    THEN Px(Rat(image.B3 - image.B11, image.B3 + image.B11))
    ELSE Masked

RECURSIVE RatSum(_, _)
RatSum(S, f) ==
    IF S = {} THEN <<0, 1>>
    ELSE LET d == CHOOSE x \in S : TRUE
         IN  RatAdd(f[d].v, RatSum(S \ {d}, f))

\* ImageCollection.mean(): the mean of the scenes that have data at the pixel
px_mean(f) ==
    LET valid == {d \in DOMAIN f : f[d].ok}
    IN  IF valid = {} THEN Masked
        ELSE Px(RatDivInt(RatSum(valid, f), Cardinality(valid)))

px_gt(p, c) == IF p.ok THEN Px(IF RatGt(p.v, c) THEN <<1, 1>> ELSE <<0, 1>>) ELSE Masked
px_lt(p, c) == IF p.ok THEN Px(IF RatLt(p.v, c) THEN <<1, 1>> ELSE <<0, 1>>) ELSE Masked
px_selfMask(p) == IF p.ok /\ p.v # <<0, 1>> THEN p ELSE Masked
px_updateMask(p, m) == IF p.ok /\ m.ok /\ m.v # <<0, 1>> THEN p ELSE Masked

----------------------------------------------------------------------------
(* Earth Engine, client side: the expressions the script builds            *)

gt(image, c)            == [op |-> "gt", a |-> image, c |-> c]
lt(image, c)            == [op |-> "lt", a |-> image, c |-> c]
selfMask(image)         == [op |-> "selfMask", a |-> image]
updateMask(image, mask) == [op |-> "updateMask", a |-> image, b |-> mask]

\* the literal 0.01 of lines 150, 159 and 162
Threshold == Rat(1, 100)

\* lines 123-125
water_mask_noSelfMask(image, threshold) == gt(image, threshold)
water_mask(image, threshold) == selfMask(gt(image, threshold))

\* lines 149 and 158: collection.map(calculate_mndwi).select('MNDWI').mean()
mndwi_mean(collection) == [op |-> "mndwi_mean", coll |-> collection]

\* line 162
NotPermWaterMask_gt(mndwi) == selfMask(gt(mndwi, Threshold))
NotPermWaterMask(mndwi) == selfMask(lt(mndwi, Threshold))

\* line 163
Flooded(fw, mask) == updateMask(fw, mask)

\* the value the server computes for expression e at the pixel
RECURSIVE Eval(_)
Eval(e) ==
    CASE e.op = "mndwi_mean" ->
            px_mean([d \in e.coll.days |-> calculate_mndwi(pixels[d])])
      [] e.op = "gt"         -> px_gt(Eval(e.a), e.c)
      [] e.op = "lt"         -> px_lt(Eval(e.a), e.c)
      [] e.op = "selfMask"   -> px_selfMask(Eval(e.a))
      [] e.op = "updateMask" -> px_updateMask(Eval(e.a), Eval(e.b))
      [] OTHER               -> Masked

----------------------------------------------------------------------------
(* load_shapefile_from_zip, lines 57-83                                    *)

EndsWith(s, suffix) ==
    /\ Len(s) >= Len(suffix)
    /\ SubSeq(s, Len(s) - Len(suffix) + 1, Len(s)) = suffix

DotShp == <<".", "s", "h", "p">>
DotShx == <<".", "s", "h", "x">>

IsShpAny(file) == EndsWith(file, DotShp) \/ EndsWith(file, DotShx)
\* line 73
IsShp(file) == EndsWith(file, DotShp)

\* lines 71-75: the first member whose name ends in ".shp", or None
FindShp(namelist) ==
    LET hits == {i \in 1..Len(namelist) : IsShp(namelist[i])}
    IN  IF hits = {} THEN None
        ELSE [op |-> "str", s |-> namelist[CHOOSE i \in hits : \A j \in hits : i <= j]]

NoTmp == [state |-> "absent", files |-> {}]

\* leaving the with-block of line 58, normally or by an exception
ExitTmp_leakOnRaise(t, raised) ==
    IF raised THEN t ELSE [state |-> "deleted", files |-> {}]
ExitTmp(t, raised) == [state |-> "deleted", files |-> {}]

----------------------------------------------------------------------------
(* get_S2, lines 93-115                                                    *)

\* filterDate(start, end).filterBounds(roi): scenes of days start <= d < end
Matching(start, end) == {d \in Days : catalog[d] /\ start <= d /\ d < end}

Collection(days) == [op |-> "collection", days |-> days]

get_S2_noCheck(r, start, end) ==
    LET s2_clipped == Collection(Matching(start, end))
    IN  [warn |-> FALSE,
         rgb  |-> [op |-> "rgb_mean", coll |-> s2_clipped],
         coll |-> s2_clipped]
get_S2(r, start, end) ==
    LET s2_clipped == Collection(Matching(start, end))
    IN  IF Cardinality(s2_clipped.days) = 0
        THEN [warn |-> TRUE, rgb |-> None, coll |-> None]
        ELSE [warn |-> FALSE,
              rgb  |-> [op |-> "rgb_mean", coll |-> s2_clipped],
              coll |-> s2_clipped]

Warning(start, end) == [level |-> "warning", start |-> start, end |-> end]
ShpError == [level |-> "error", start |-> 0, end |-> 0]

----------------------------------------------------------------------------
(* The map, lines 90 and 140-186                                           *)

NewMap == [layers |-> <<>>, legend |-> <<>>]

addLayer_front(m, name) == [m EXCEPT !.layers = <<name>> \o @]
addLayer(m, name) == [m EXCEPT !.layers = Append(@, name)]

add_legend(m, title) == [m EXCEPT !.legend = Append(@, title)]

----------------------------------------------------------------------------
(* The script, one action per statement group; pc is the line about to run *)

ZipPath == <<"shapefile.zip">>
Gdf(crs) == [op |-> "gdf", crs |-> crs]
Roi == [op |-> "roi"]

\* an unhandled exception: the pass ends without reaching line 188
Raise(f) == pc' = "failed" /\ fault' = f

\* line 34
FileUploader ==
    /\ pc = "L34"
    /\ uploaded_zip' \in {None} \cup Archives
    /\ pc' = "L42"
    /\ UNCHANGED <<fault, start_date, end_date, start_date_post, end_date_post,
                   remote, loader, study_extent, roi, Map, messages, queries,
                   preVars, postVars, rendered, tiles,
                   shown_before>>

\* lines 40-44
PreDateInputs ==
    /\ pc = "L42"
    /\ start_date' \in Dates
    /\ end_date' \in Dates
    /\ pc' = "L52"
    /\ UNCHANGED <<fault, uploaded_zip, start_date_post, end_date_post,
                   remote, loader, study_extent, roi, Map, messages, queries,
                   preVars, postVars, rendered, tiles,
                   shown_before>>

\* lines 50-54
PostDateInputs ==
    /\ pc = "L52"
    /\ start_date_post' \in Dates
    /\ end_date_post' \in Dates
    /\ pc' = "L90"
    /\ UNCHANGED <<fault, uploaded_zip, start_date, end_date,
                   remote, loader, study_extent, roi, Map, messages, queries,
                   preVars, postVars, rendered, tiles,
                   shown_before>>

\* line 90
CreateMap_keep ==
    /\ pc = "L90"
    /\ pc' = "L128"
    /\ UNCHANGED <<fault, inputs, remote, loader, study_extent, roi, Map,
                   messages, queries, preVars, postVars, rendered, tiles,
                   shown_before>>
CreateMap ==
    /\ pc = "L90"
    /\ Map' = NewMap
    /\ pc' = "L128"
    /\ UNCHANGED <<fault, inputs, remote, loader, study_extent, roi, messages,
                   queries, preVars, postVars, rendered, tiles,
                   shown_before>>

\* line 128
CheckUpload ==
    /\ pc = "L128"
    /\ pc' = IF uploaded_zip # None THEN "L58" ELSE "L188"
    /\ UNCHANGED <<fault, inputs, remote, loader, study_extent, roi, Map,
                   messages, queries, preVars, postVars, rendered, tiles,
                   shown_before>>

\* line 58: the temporary directory is created
EnterTmp ==
    /\ pc = "L58"
    /\ tmpdir' = [state |-> "present", files |-> {}]
    /\ pc' = "L63"
    /\ UNCHANGED <<fault, inputs, remote, shp_file, study_extent, roi, Map,
                   messages, queries, preVars, postVars, rendered, tiles,
                   shown_before>>

\* lines 60-64: the upload is written into the directory, or the write fails
WriteZip ==
    /\ pc = "L63"
    /\ \/ /\ tmpdir' = [tmpdir EXCEPT !.files = @ \cup {ZipPath}]
          /\ pc' = "L67"
          /\ UNCHANGED fault
       \/ /\ tmpdir' = ExitTmp(tmpdir, TRUE)
          /\ Raise("write")
    /\ UNCHANGED <<inputs, remote, shp_file, study_extent, roi, Map,
                   messages, queries, preVars, postVars, rendered, tiles,
                   shown_before>>

\* lines 67-68: extractall, or BadZipFile for a malformed archive
ExtractZip ==
    /\ pc = "L67"
    /\ IF uploaded_zip.wellformed
       THEN /\ tmpdir' = [tmpdir EXCEPT !.files =
                             @ \cup {uploaded_zip.names[i] :
                                       i \in 1..Len(uploaded_zip.names)}]
            /\ pc' = "L71"
            /\ UNCHANGED fault
       ELSE /\ tmpdir' = ExitTmp(tmpdir, TRUE)
            /\ Raise("extract")
    /\ UNCHANGED <<inputs, remote, shp_file, study_extent, roi, Map,
                   messages, queries, preVars, postVars, rendered, tiles,
                   shown_before>>

\* lines 71-75
ScanNames ==
    /\ pc = "L71"
    /\ shp_file' = FindShp(uploaded_zip.names)
    /\ pc' = "L77"
    /\ UNCHANGED <<fault, inputs, remote, tmpdir, study_extent, roi, Map,
                   messages, queries, preVars, postVars, rendered, tiles,
                   shown_before>>

\* lines 77-80: gpd.read_file parses the member, or raises on a bad one
ReadShapefile ==
    /\ pc = "L77"
    /\ shp_file # None
    /\ \/ /\ \E crs \in CrsValues : study_extent' = Gdf(crs)
          /\ tmpdir' = ExitTmp(tmpdir, FALSE)
          /\ pc' = "L132"
          /\ UNCHANGED fault
       \/ /\ tmpdir' = ExitTmp(tmpdir, TRUE)
          /\ Raise("parse")
          /\ UNCHANGED study_extent
    /\ UNCHANGED <<inputs, remote, shp_file, roi, Map, messages, queries,
                   preVars, postVars, rendered, tiles,
                   shown_before>>

\* lines 81-83
ShapefileMissing ==
    /\ pc = "L77"
    /\ shp_file = None
    /\ messages' = Append(messages, ShpError)
    /\ study_extent' = None
    /\ tmpdir' = ExitTmp(tmpdir, FALSE)
    /\ pc' = "L132"
    /\ UNCHANGED <<fault, inputs, remote, shp_file, roi, Map, queries,
                   preVars, postVars, rendered, tiles,
                   shown_before>>

\* line 132
CheckExtent ==
    /\ pc = "L132"
    /\ pc' = IF study_extent # None THEN "L134" ELSE "L188"
    /\ UNCHANGED <<fault, inputs, remote, loader, study_extent, roi, Map,
                   messages, queries, preVars, postVars, rendered, tiles,
                   shown_before>>

\* lines 134-137: to_crs raises on a geometry without a reference system
Reproject ==
    /\ pc = "L134"
    /\ IF study_extent.crs = "none"
       THEN /\ Raise("crs")
            /\ UNCHANGED <<study_extent, roi>>
       ELSE /\ study_extent' = Gdf("EPSG:4326")
            /\ roi' = Roi
            /\ pc' = "L140"
            /\ UNCHANGED fault
    /\ UNCHANGED <<inputs, remote, loader, Map, messages, queries,
                   preVars, postVars, rendered, tiles,
                   shown_before>>

\* lines 140-141
AddAOI ==
    /\ pc = "L140"
    /\ Map' = addLayer(NewMap, "AOI")
    /\ pc' = "L144"
    /\ UNCHANGED <<fault, inputs, remote, loader, study_extent, roi, messages,
                   queries, preVars, postVars, rendered, tiles,
                   shown_before>>

\* line 144: one query (size().getInfo()); a failure of the remote call (the
\* network, the session, a date range the platform rejects) is unhandled
QueryPre ==
    /\ pc = "L144"
    /\ queries' = Append(queries, "pre")
    /\ \/ LET r == get_S2(roi, start_date, end_date)
          IN  /\ pre_rgb_layer' = r.rgb
              /\ s2_preflood_clipped' = r.coll
              /\ messages' = IF r.warn
                             THEN Append(messages, Warning(start_date, end_date))
                             ELSE messages
              /\ pc' = "L145"
              /\ UNCHANGED fault
       \/ /\ Raise("remote")
          /\ UNCHANGED <<pre_rgb_layer, s2_preflood_clipped, messages>>
    /\ UNCHANGED <<inputs, remote, loader, study_extent, roi, Map,
                   preflood_mndwi, perm_water, postVars, rendered, tiles,
                   shown_before>>

\* lines 145-150
AfterPre ==
    /\ pc = "L145"
    /\ IF pre_rgb_layer # None
       THEN /\ Map' = addLayer(Map, "Pre-flood RGB")
            /\ preflood_mndwi' = mndwi_mean(s2_preflood_clipped)
            /\ perm_water' = water_mask(preflood_mndwi', Threshold)
            /\ pc' = "L153"
       ELSE /\ pc' = "L188"
            /\ UNCHANGED <<Map, preflood_mndwi, perm_water>>
    /\ UNCHANGED <<fault, inputs, remote, loader, study_extent, roi, messages,
                   queries, pre_rgb_layer, s2_preflood_clipped, postVars,
                   rendered, tiles,
                   shown_before>>

\* line 153
QueryPost ==
    /\ pc = "L153"
    /\ queries' = Append(queries, "post")
    /\ \/ LET r == get_S2(roi, start_date_post, end_date_post)
          IN  /\ post_rgb_layer' = r.rgb
              /\ s2_postflood_clipped' = r.coll
              /\ messages' = IF r.warn
                             THEN Append(messages,
                                         Warning(start_date_post, end_date_post))
                             ELSE messages
              /\ pc' = "L154"
              /\ UNCHANGED fault
       \/ /\ Raise("remote")
          /\ UNCHANGED <<post_rgb_layer, s2_postflood_clipped, messages>>
    /\ UNCHANGED <<inputs, remote, loader, study_extent, roi, Map, preVars,
                   postflood_mndwi, flood_water, notPermWaterMask, flooded,
                   rendered, tiles,
                   shown_before>>

\* lines 154-163
AfterPost_wrongCheck ==
    /\ pc = "L154"
    /\ IF pre_rgb_layer # None
       THEN /\ Map' = addLayer(Map, "Post-flood RGB")
            /\ postflood_mndwi' = mndwi_mean(s2_postflood_clipped)
            /\ flood_water' = water_mask(postflood_mndwi', Threshold)
            /\ notPermWaterMask' = NotPermWaterMask(preflood_mndwi)
            /\ flooded' = Flooded(flood_water', notPermWaterMask')
            /\ pc' = "L179"
       ELSE /\ pc' = "L188"
            /\ UNCHANGED <<Map, postflood_mndwi, flood_water, notPermWaterMask,
                           flooded>>
    /\ UNCHANGED <<fault, inputs, remote, loader, study_extent, roi, messages,
                   queries, preVars, post_rgb_layer, s2_postflood_clipped,
                   rendered, tiles,
                   shown_before>>
AfterPost ==
    /\ pc = "L154"
    /\ IF post_rgb_layer # None
       THEN /\ Map' = addLayer(Map, "Post-flood RGB")
            /\ postflood_mndwi' = mndwi_mean(s2_postflood_clipped)
            /\ flood_water' = water_mask(postflood_mndwi', Threshold)
            /\ notPermWaterMask' = NotPermWaterMask(preflood_mndwi)
            /\ flooded' = Flooded(flood_water', notPermWaterMask')
            /\ pc' = "L179"
       ELSE /\ pc' = "L188"
            /\ UNCHANGED <<Map, postflood_mndwi, flood_water, notPermWaterMask,
                           flooded>>
    /\ UNCHANGED <<fault, inputs, remote, loader, study_extent, roi, messages,
                   queries, preVars, post_rgb_layer, s2_postflood_clipped,
                   rendered, tiles,
                   shown_before>>

\* line 179
AddFlood ==
    /\ pc = "L179"
    /\ Map' = addLayer(Map, "Flood Extent")
    /\ pc' = "L181"
    /\ UNCHANGED <<fault, inputs, remote, loader, study_extent, roi, messages,
                   queries, preVars, postVars, rendered, tiles,
                   shown_before>>

\* lines 181-186
AddLegend ==
    /\ pc = "L181"
    /\ Map' = add_legend(Map, "Flood Extent")
    /\ pc' = "L188"
    /\ UNCHANGED <<fault, inputs, remote, loader, study_extent, roi, messages,
                   queries, preVars, postVars, rendered, tiles,
                   shown_before>>

\* line 188
ToStreamlit ==
    /\ pc = "L188"
    /\ rendered' = Map
    /\ pc' = "done"
    /\ UNCHANGED <<fault, inputs, remote, loader, study_extent, roi, Map,
                   messages, queries, preVars, postVars, tiles, shown_before>>

\* the page fetches the tiles of the Flood Extent layer: the server evaluates
\* the expression built at lines 149-163
ServeTiles ==
    /\ pc = "done"
    /\ flooded # None
    /\ tiles = None
    /\ tiles' = [op |-> "tiles",
                 preflood_mndwi   |-> Eval(preflood_mndwi),
                 postflood_mndwi  |-> Eval(postflood_mndwi),
                 perm_water       |-> Eval(perm_water),
                 flood_water      |-> Eval(flood_water),
                 notPermWaterMask |-> Eval(notPermWaterMask),
                 flooded          |-> Eval(flooded)]
    /\ UNCHANGED <<pc, fault, inputs, remote, loader, study_extent, roi, Map,
                   messages, queries, preVars, postVars, rendered, shown_before>>

\* the user changes an input: the framework runs the script again from the
\* top.  Every name is rebound by the script before it is read; the Map of
\* the previous run is left as it was, so that only line 90 clears it.
Rerun ==
    /\ pc \in {"done", "failed"}
    /\ pc' = "L34"
    /\ fault' = "none"
    /\ uploaded_zip' = None
    /\ start_date' = 0 /\ end_date' = 0
    /\ start_date_post' = 0 /\ end_date_post' = 0
    /\ tmpdir' = NoTmp
    /\ shp_file' = None
    /\ study_extent' = None
    /\ roi' = None
    /\ messages' = <<>>
    /\ queries' = <<>>
    /\ pre_rgb_layer' = None /\ s2_preflood_clipped' = None
    /\ preflood_mndwi' = None /\ perm_water' = None
    /\ post_rgb_layer' = None /\ s2_postflood_clipped' = None
    /\ postflood_mndwi' = None /\ flood_water' = None
    /\ notPermWaterMask' = None /\ flooded' = None
    /\ rendered' = None
    /\ tiles' = None
    /\ shown_before' = (shown_before \/ (rendered # None /\ rendered.layers # <<>>))
    /\ UNCHANGED <<remote, Map>>

----------------------------------------------------------------------------
(* Specifications *)

Fresh ==
    /\ fault = "none"
    /\ messages = <<>>
    /\ queries = <<>>
    /\ pre_rgb_layer = None /\ s2_preflood_clipped = None
    /\ preflood_mndwi = None /\ perm_water = None
    /\ post_rgb_layer = None /\ s2_postflood_clipped = None
    /\ postflood_mndwi = None /\ flood_water = None
    /\ notPermWaterMask = None /\ flooded = None
    /\ rendered = None
    /\ tiles = None
    /\ shown_before = FALSE

\* the first run of the script, before line 34.  The client never reads
\* pixel values, so the pixels are left without data here.
Init ==
    /\ pc = "L34"
    /\ Fresh
    /\ uploaded_zip = None
    /\ start_date = 0 /\ end_date = 0
    /\ start_date_post = 0 /\ end_date_post = 0
    /\ catalog \in [Days -> BOOLEAN]
    /\ pixels = [d \in Days |-> NoSample]
    /\ tmpdir = NoTmp
    /\ shp_file = None
    /\ study_extent = None
    /\ roi = None
    /\ Map = NewMap

Next ==
    \/ FileUploader \/ PreDateInputs \/ PostDateInputs \/ CreateMap
    \/ CheckUpload \/ EnterTmp \/ WriteZip \/ ExtractZip \/ ScanNames
    \/ ReadShapefile \/ ShapefileMissing \/ CheckExtent \/ Reproject
    \/ AddAOI \/ QueryPre \/ AfterPre \/ QueryPost \/ AfterPost
    \/ AddFlood \/ AddLegend \/ ToStreamlit \/ Rerun

Spec == Init /\ [][Next]_vars

\* The pipeline from line 144 on, after a boundary was loaded, for every
\* catalog, every choice of the four dates and every pixel content of the
\* scenes; the server then evaluates the masks.
InitMask ==
    /\ pc = "L144"
    /\ Fresh
    /\ uploaded_zip = [op |-> "zip", wellformed |-> TRUE, names |-> <<NameShp>>]
    /\ start_date \in Dates /\ end_date \in Dates
    /\ start_date_post \in Dates /\ end_date_post \in Dates
    /\ catalog \in [Days -> BOOLEAN]
    /\ pixels \in [Days -> Samples]
    /\ \A d \in Days : ~catalog[d] => pixels[d] = NoSample
    /\ tmpdir = [state |-> "deleted", files |-> {}]
    /\ shp_file = [op |-> "str", s |-> NameShp]
    /\ study_extent = Gdf("EPSG:4326")
    /\ roi = Roi
    /\ Map = addLayer(NewMap, "AOI")

NextMask ==
    \/ QueryPre \/ AfterPre \/ QueryPost \/ AfterPost
    \/ AddFlood \/ AddLegend \/ ToStreamlit \/ ServeTiles

MaskSpec == InitMask /\ [][NextMask]_vars

----------------------------------------------------------------------------
(* Vocabulary of the properties                                            *)

\* the map of this pass exists (line 90 has run)
InPass == pc \notin {"L34", "L42", "L52", "L90"}

Has(m, name) == \E i \in 1..Len(m.layers) : m.layers[i] = name

\* no member of the archive has a name ending in ".shp"
NoShpMember(zip) ==
    \A i \in 1..Len(zip.names) :
        LET n == zip.names[i]
            k == Len(n)
        IN  ~(k >= 4 /\ n[k - 3] = "." /\ n[k - 2] = "s" /\ n[k - 1] = "h"
                     /\ n[k] = "p")

\* get_S2 has returned to line 145 / line 154 in this pass
PreReturned  == Len(queries) >= 1 /\ ~(pc = "failed" /\ Len(queries) = 1)
PostReturned == Len(queries) = 2 /\ pc # "failed"

PreEmpty  == Matching(start_date, end_date) = {}
PostEmpty == Matching(start_date_post, end_date_post) = {}

Cutoff == <<1, 100>>

\* the pixel is unmasked with a value above the cutoff
IsWater(p) == p.ok /\ RatGt(p.v, Cutoff)

\* the position of a layer in the order of lines 141, 146, 155, 179
LayerRank(name) ==
    CASE name = "AOI" -> 1
      [] name = "Pre-flood RGB" -> 2
      [] name = "Post-flood RGB" -> 3
      [] name = "Flood Extent" -> 4
      [] OTHER -> 0

\* the layers a pass with these inputs ends with
ExpectedLayers ==
    IF uploaded_zip = None \/ study_extent = None THEN <<>>
    ELSE <<"AOI">> \o
         (IF PreEmpty THEN <<>>
          ELSE <<"Pre-flood RGB">> \o
               (IF PostEmpty THEN <<>>
                ELSE <<"Post-flood RGB", "Flood Extent">>))

----------------------------------------------------------------------------
(* C1: for a well-formed archive with no member named *.shp the loader     *)
(* returns None and shows exactly one error; the loader raises nothing     *)
(* (the only failure left is the I/O failure of saving the upload), and    *)
(* nothing more happens in the pass: no query, no layer on the map.        *)
C1_NoShpHalts ==
    (uploaded_zip # None /\ uploaded_zip.wellformed /\ NoShpMember(uploaded_zip))
    => /\ pc \in {"L128", "L58", "L63", "L67", "L71", "L77", "L132", "L188", "done",
                  "failed"}
             \/ ~InPass
       /\ pc = "failed" => fault = "write"
       /\ pc \in {"L132", "L188", "done"}
             => /\ study_extent = None
                /\ messages = <<ShpError>>
       /\ queries = <<>>
       /\ InPass => Map.layers = <<>>
       /\ pc = "done" => rendered.layers = <<>>

C1_Witness ==
    /\ pc = "done"
    /\ uploaded_zip # None
    /\ uploaded_zip.wellformed
    /\ uploaded_zip.names = <<NameShx, NameUpper>>
    /\ messages = <<ShpError>>

(* C2: when a date range matches no scene, get_S2 returns (None, None) and *)
(* shows the warning for that range, and the composite layer of that range *)
(* is not on the map of the pass.                                          *)
C2_EmptyRangeSentinel ==
    /\ (PreReturned /\ PreEmpty)
         => /\ pre_rgb_layer = None
            /\ s2_preflood_clipped = None
            /\ messages = <<Warning(start_date, end_date)>>
    /\ (PostReturned /\ PostEmpty)
         => /\ post_rgb_layer = None
            /\ s2_postflood_clipped = None
            /\ messages = <<Warning(start_date_post, end_date_post)>>
    /\ (InPass /\ PreEmpty) => ~Has(Map, "Pre-flood RGB")
    /\ (InPass /\ PostEmpty) => ~Has(Map, "Post-flood RGB")

C2_Witness ==
    /\ pc = "done"
    /\ PostReturned
    /\ PostEmpty
    /\ start_date_post < end_date_post
    /\ Has(rendered, "Pre-flood RGB")

(* C3: every pixel unmasked in flooded is unmasked in flood_water, and its *)
(* post-event index is strictly above 0.01.                                *)
C3_FloodSubsetOfPostWater ==
    (tiles # None /\ tiles.flooded.ok)
        => /\ tiles.flood_water.ok
           /\ IsWater(tiles.postflood_mndwi)

C3_Witness ==
    /\ tiles # None
    /\ tiles.flooded.ok
    /\ Cardinality(s2_postflood_clipped.days) = 2

(* C4: a pixel whose pre-event index is above 0.01 is unmasked in          *)
(* perm_water and is never unmasked in flooded, whatever its post-event    *)
(* index.                                                                  *)
C4_PermWaterNeverFlood ==
    (tiles # None /\ IsWater(tiles.preflood_mndwi))
        => /\ tiles.perm_water.ok
           /\ ~tiles.flooded.ok

C4_Witness ==
    /\ tiles # None
    /\ tiles.perm_water.ok
    /\ tiles.flood_water.ok
    /\ ~tiles.flooded.ok

(* C5: the flood mask is exactly the set difference: a pixel is in flooded *)
(* if and only if it is water post-event and was not water pre-event.      *)
C5_ExactSetDifference ==
    tiles # None
        => (tiles.flooded.ok <=> (IsWater(tiles.postflood_mndwi)
                                   /\ ~IsWater(tiles.preflood_mndwi)))

(* C6: in a pass that loaded a boundary and reached line 188, the AOI      *)
(* layer is on the map, and each composite layer is on the map whenever    *)
(* its own date range has matching scenes, whatever the other range gave.  *)
C6_CompositesIndependent ==
    (pc = "done" /\ study_extent # None)
        => /\ Has(rendered, "AOI")
           /\ ~PreEmpty => Has(rendered, "Pre-flood RGB")
           /\ ~PostEmpty => Has(rendered, "Post-flood RGB")

(* C7: at the end of a pass the Flood Extent layer and its legend are on   *)
(* the map exactly when both queries returned data, and a mask is derived  *)
(* only from collections that get_S2 returned.                             *)
C7_ShortCircuit ==
    /\ pc = "done"
         => LET both == /\ PreReturned /\ ~PreEmpty
                        /\ PostReturned /\ ~PostEmpty
            IN  /\ Has(rendered, "Flood Extent") <=> both
                /\ rendered.legend = <<"Flood Extent">> <=> both
                /\ rendered.legend # <<>> <=> both
    /\ (preflood_mndwi # None \/ perm_water # None)
         => /\ PreReturned /\ ~PreEmpty
            /\ s2_preflood_clipped # None
    /\ (postflood_mndwi # None \/ flood_water # None \/ notPermWaterMask # None
          \/ flooded # None)
         => /\ PreReturned /\ ~PreEmpty
            /\ PostReturned /\ ~PostEmpty
            /\ s2_preflood_clipped # None
            /\ s2_postflood_clipped # None

C7_Witness ==
    /\ pc = "done"
    /\ Has(rendered, "Flood Extent")
    /\ rendered.legend = <<"Flood Extent">>
    /\ flooded # None

(* C8: outside the with-block of lines 58-83 the temporary directory does  *)
(* not exist: it is gone when the loader has returned a geometry, returned *)
(* None, or let a failure of the write, the extraction or the parse        *)
(* through.                                                                *)
C8_TmpDirScoped ==
    pc \notin {"L63", "L67", "L71", "L77"} => tmpdir.state # "present"

C8_Witness ==
    /\ pc = "failed"
    /\ fault = "parse"
    /\ tmpdir.state = "deleted"

(* C9: the layers of the map are in the order AOI, Pre-flood RGB,          *)
(* Post-flood RGB, Flood Extent, each at most once, and the legend is      *)
(* there only once the Flood Extent layer is.                              *)
C9_FixedOrder ==
    InPass
      => /\ \A i \in 1..Len(Map.layers) : LayerRank(Map.layers[i]) > 0
         /\ \A i, j \in 1..Len(Map.layers) :
                i < j => LayerRank(Map.layers[i]) < LayerRank(Map.layers[j])
         /\ Len(Map.legend) <= 1
         /\ Map.legend # <<>> => Has(Map, "Flood Extent")

C9_Witness ==
    /\ pc = "done"
    /\ rendered.layers = <<"AOI", "Pre-flood RGB", "Post-flood RGB", "Flood Extent">>
    /\ rendered.legend = <<"Flood Extent">>

(* C10: the layers on the page at the end of a pass are a function of that *)
(* pass's inputs alone (the upload and what it parsed to, the two date     *)
(* ranges, the catalog), whatever earlier passes showed; a pass with no    *)
(* upload ends with no layer and has issued no query.                      *)
C10_PassesStateless ==
    pc = "done"
      => /\ rendered.layers = ExpectedLayers
         /\ uploaded_zip = None => (rendered.layers = <<>> /\ queries = <<>>)

C10_Witness ==
    /\ pc = "done"
    /\ shown_before
    /\ uploaded_zip = None
    /\ rendered.layers = <<>>

====
